---- MODULE Spec2Model ----
(***************************************************************************)
(* A model of the EPUB-to-text converter (src/epub_to_txt.py).             *)
(*                                                                         *)
(* Text is modelled as a sequence of characters, each character a string   *)
(* naming one Unicode code point ("a", "\n", "U+00E9", ...).  Python's     *)
(* None is the empty tuple << >> and a present value x is << x >>.         *)
(***************************************************************************)
EXTENDS Integers, Sequences, FiniteSets, TLC

VARIABLES
    \* ---- convert_epub_to_txt (specification Spec) ----
    pc,               \* position in convert_epub_to_txt
    book,             \* the archive: container, package document, entries
    merge,            \* the merge argument
    dir_created,      \* os.makedirs(output_dir) has run
    fs,               \* the output directory: file name -> content
    spine_items,      \* result of get_spine_order
    file_map,         \* normalized lower-cased path -> archive entry name
    idx,              \* index of the reading-order item being processed
    cur,              \* locals of the loop body (actual_path, text_content, ...)
    processed_files,  \* list of (txt_filename, file_size, text_content)
    total_size,       \* running byte total
    outcome,          \* how the call ended
    stats,            \* the statistics reported at the end
    hist,             \* history: what was attempted, failed, written
    \* ---- get_spine_order's two loops (specification SpecSpine) ----
    s_pc, s_pkg, s_k, s_manifest, s_spine,
    \* ---- clean_text (specification SpecClean) ----
    c_pc, c_in, c_once, c_twice,
    \* ---- archive lookup (specification SpecResolve) ----
    r_pc, r_names, r_item, r_actual, r_read

convVars == <<pc, book, merge, dir_created, fs, spine_items, file_map, idx, cur,
              processed_files, total_size, outcome, stats, hist>>
spineVars == <<s_pc, s_pkg, s_k, s_manifest, s_spine>>
cleanVars == <<c_pc, c_in, c_once, c_twice>>
resolveVars == <<r_pc, r_names, r_item, r_actual, r_read>>
vars == <<convVars, spineVars, cleanVars, resolveVars>>

(***************************************************************************)
(* Characters and generic string helpers                                   *)
(***************************************************************************)
NL == "\n"
TAB == "\t"
SP == " "
BSLASH == "\\"
EACUTE == "U+00E9"      \* a two-byte character in UTF-8
LTLT == "U+226A"        \* the character named by the entity ll;

None == << >>
Some(x) == << x >>

StartsWith(s, p) == Len(s) >= Len(p) /\ SubSeq(s, 1, Len(p)) = p
EndsWith(s, p) == Len(s) >= Len(p) /\ SubSeq(s, Len(s) - Len(p) + 1, Len(s)) = p

\* str.rfind(ch) + 1: the 1-based index of the last ch, 0 when absent
RFind(s, ch) ==
    LET hits == {i \in 1..Len(s) : s[i] = ch}
    IN IF hits = {} THEN 0 ELSE CHOOSE i \in hits : \A j \in hits : j <= i

RECURSIVE LStrip(_, _)
LStrip(s, ch) == IF s # << >> /\ s[1] = ch THEN LStrip(Tail(s), ch) ELSE s

RECURSIVE RStrip(_, _)
RStrip(s, ch) ==
    IF s # << >> /\ s[Len(s)] = ch THEN RStrip(SubSeq(s, 1, Len(s) - 1), ch) ELSE s

LowerChar(c) ==
    CASE c = "A" -> "a"
      [] c = "B" -> "b"
      [] c = "H" -> "h"
      [] c = "M" -> "m"
      [] c = "O" -> "o"
      [] c = "P" -> "p"
      [] c = "T" -> "t"
      [] OTHER -> c

Lower(s) == [i \in 1..Len(s) |-> LowerChar(s[i])]

Replace(s, from, to) == [i \in 1..Len(s) |-> IF s[i] = from THEN to ELSE s[i]]

\* os.path.basename
Basename(p) == SubSeq(p, RFind(p, "/") + 1, Len(p))

\* os.path.dirname
Dirname(p) ==
    LET head == SubSeq(p, 1, RFind(p, "/"))
    IN IF head # << >> /\ (\E i \in 1..Len(head) : head[i] # "/")
       THEN RStrip(head, "/") ELSE head

\* os.path.splitext(p)[0]: a leading run of dots is not an extension
SplitextRoot(p) ==
    LET sepIndex == RFind(p, "/")
        dotIndex == RFind(p, ".")
    IN IF dotIndex > sepIndex /\ (\E i \in (sepIndex + 1)..(dotIndex - 1) : p[i] # ".")
       THEN SubSeq(p, 1, dotIndex - 1) ELSE p

\* len(text.encode('utf-8'))
Utf8Bytes(c) == IF c = EACUTE THEN 2 ELSE IF c = LTLT THEN 3 ELSE 1

RECURSIVE Utf8Len(_)
Utf8Len(s) == IF s = << >> THEN 0 ELSE Utf8Bytes(Head(s)) + Utf8Len(Tail(s))

(***************************************************************************)
(* clean_text                                                              *)
(***************************************************************************)
\* Characters that may form a named character reference after "&"
\* (the regular expression of html.unescape: anything but \t \n \f space < & # ;)
IsNameChar(c) == c \notin {TAB, NL, SP, "<", "&", "#", ";"}

RECURSIVE NameRun(_)
NameRun(s) ==
    IF s # << >> /\ IsNameChar(s[1]) THEN <<s[1]>> \o NameRun(Tail(s)) ELSE << >>

\* html.unescape's replacement of one reference body (the text after "&").
\* Of the HTML5 names only those spelled with the letters of the model's
\* alphabet exist here: "lt", "lt;" and "ll;".
ReplaceCharref(s) ==
    IF s = <<"l", "t">> \/ s = <<"l", "t", ";">> THEN <<"<">>
    ELSE IF s = <<"l", "l", ";">> THEN <<LTLT>>
    ELSE IF Len(s) > 2 /\ SubSeq(s, 1, 2) = <<"l", "t">>
         THEN <<"<">> \o SubSeq(s, 3, Len(s))
    ELSE <<"&">> \o s

RECURSIVE Unescape(_)
Unescape(s) ==
    IF s = << >> THEN << >>
    ELSE IF s[1] # "&" THEN <<s[1]>> \o Unescape(Tail(s))
    ELSE LET run == NameRun(Tail(s))
             n == Len(run)
             semi == Len(s) >= n + 2 /\ s[n + 2] = ";"
             body == IF semi THEN run \o <<";">> ELSE run
         IN IF n = 0 THEN <<"&">> \o Unescape(Tail(s))
            ELSE ReplaceCharref(body) \o Unescape(SubSeq(s, Len(body) + 2, Len(s)))

\* re.sub(r'\n{2,}', '\n\n', text)
RECURSIVE CollapseNewlines(_)
CollapseNewlines(s) ==
    IF s = << >> THEN << >>
    ELSE IF s[1] # NL THEN <<s[1]>> \o CollapseNewlines(Tail(s))
    ELSE LET rest == LStrip(s, NL)
             run == Len(s) - Len(rest)
         IN (IF run >= 2 THEN <<NL, NL>> ELSE <<NL>>) \o CollapseNewlines(rest)

\* the lines of a text, split at "\n"
RECURSIVE SplitLines(_)
SplitLines(s) ==
    LET hits == {i \in 1..Len(s) : s[i] = NL}
    IN IF hits = {} THEN <<s>>
       ELSE LET i == CHOOSE k \in hits : \A j \in hits : k <= j
            IN <<SubSeq(s, 1, i - 1)>> \o SplitLines(SubSeq(s, i + 1, Len(s)))

RECURSIVE JoinLines(_)
JoinLines(ls) ==
    IF Len(ls) = 1 THEN ls[1] ELSE ls[1] \o <<NL>> \o JoinLines(Tail(ls))

IsBlankLine(l) == l # << >> /\ \A i \in 1..Len(l) : l[i] \in {SP, TAB}

\* re.sub(r'^[ \t]+$', '', text, flags=re.MULTILINE)
EmptyBlankLines(s) ==
    LET ls == SplitLines(s)
    IN JoinLines([i \in 1..Len(ls) |-> IF IsBlankLine(ls[i]) THEN << >> ELSE ls[i]])

clean_text(text) == EmptyBlankLines(CollapseNewlines(Unescape(text)))

(***************************************************************************)
(* get_spine_order                                                         *)
(***************************************************************************)
EmptyDict == [k \in {} |-> << >>]

\* opf_dir: the directory of the package document, with a trailing slash
OpfDir(rootfile_path) ==
    LET opf_dir == Dirname(rootfile_path)
    IN IF opf_dir # << >> /\ ~EndsWith(opf_dir, <<"/">>)
       THEN opf_dir \o <<"/">> ELSE opf_dir

\* the href of a manifest item, made relative to the archive root
ItemHref(opf_dir, item_href) ==
    IF opf_dir # << >> /\ ~StartsWith(item_href, <<"/">>)
    THEN opf_dir \o item_href ELSE item_href

\* manifest_items[item_id] = item_href
ManifestPut(manifest_items, opf_dir, item) ==
    [k \in DOMAIN manifest_items \cup {item.id} |->
        IF k = item.id THEN ItemHref(opf_dir, item.href) ELSE manifest_items[k]]

\* faulty variant of SpineAppend: inserts at the front instead of appending
SpinePrepend(items, manifest_items, idref) ==
    IF idref \in DOMAIN manifest_items
    THEN <<manifest_items[idref]>> \o items ELSE items

\* the body of the loop over the itemref elements
SpineAppend(items, manifest_items, idref) ==
    IF idref \in DOMAIN manifest_items
    THEN Append(items, manifest_items[idref]) ELSE items

RECURSIVE ManifestLoop(_, _, _)
ManifestLoop(manifest_items, opf_dir, items) ==
    IF items = << >> THEN manifest_items
    ELSE ManifestLoop(ManifestPut(manifest_items, opf_dir, Head(items)), opf_dir,
                      Tail(items))

RECURSIVE SpineLoop(_, _, _)
SpineLoop(acc, manifest_items, itemrefs) ==
    IF itemrefs = << >> THEN acc
    ELSE SpineLoop(SpineAppend(acc, manifest_items, Head(itemrefs)), manifest_items,
                   Tail(itemrefs))

\* get_spine_order as one call.  b.container is "ok", "missing" or "bad"
\* (no entry, not XML, no rootfile element); b.opf_ok says whether the
\* package document can be read and parsed.
get_spine_order(b) ==
    IF b.container # "ok" THEN << >>
    ELSE IF ~b.opf_ok THEN << >>
    ELSE SpineLoop(<< >>,
                   ManifestLoop(EmptyDict, OpfDir(b.rootfile), b.items),
                   b.itemrefs)

\* ---- the two loops, one iteration per step ----
MaxItems == 2
MaxRefs == 3
ItemIds == {"a", "b"}
IdRefs == {"a", "b", "z"}
Hrefs == {<<"x">>, <<"/", "y">>}
RootPaths == {<<"c">>, <<"O", "/", "c">>, <<"/", "c">>}

SeqsUpTo(S, n) == UNION {[1..k -> S] : k \in 0..n}

Packages ==
    [rootfile : RootPaths,
     items : SeqsUpTo([id : ItemIds, href : Hrefs], MaxItems),
     itemrefs : SeqsUpTo(IdRefs, MaxRefs)]

SpineIdle ==
    /\ s_pc = "idle"
    /\ s_pkg = [rootfile |-> << >>, items |-> << >>, itemrefs |-> << >>]
    /\ s_k = 0
    /\ s_manifest = EmptyDict
    /\ s_spine = << >>

SpineStart ==
    /\ s_pc = "manifest"
    /\ s_pkg \in Packages
    /\ s_k = 1
    /\ s_manifest = EmptyDict
    /\ s_spine = << >>

ManifestStep ==
    /\ s_pc = "manifest"
    /\ s_k <= Len(s_pkg.items)
    /\ s_manifest' = ManifestPut(s_manifest, OpfDir(s_pkg.rootfile), s_pkg.items[s_k])
    /\ s_k' = s_k + 1
    /\ UNCHANGED <<s_pc, s_pkg, s_spine>>

ManifestDone ==
    /\ s_pc = "manifest"
    /\ s_k > Len(s_pkg.items)
    /\ s_pc' = "spine"
    /\ s_k' = 1
    /\ UNCHANGED <<s_pkg, s_manifest, s_spine>>

SpineStep ==
    /\ s_pc = "spine"
    /\ s_k <= Len(s_pkg.itemrefs)
    /\ s_spine' = SpineAppend(s_spine, s_manifest, s_pkg.itemrefs[s_k])
    /\ s_k' = s_k + 1
    /\ UNCHANGED <<s_pc, s_pkg, s_manifest>>

SpineReturn ==
    /\ s_pc = "spine"
    /\ s_k > Len(s_pkg.itemrefs)
    /\ s_pc' = "return"
    /\ UNCHANGED <<s_pkg, s_k, s_manifest, s_spine>>

(***************************************************************************)
(* clean_text applied once (html_to_text) and once more                    *)
(***************************************************************************)
MaxTextLen == 4
CleanAlphabet == {NL, SP, TAB, "x", "&", "l", "t", ";"}
Texts == SeqsUpTo(CleanAlphabet, MaxTextLen)

CleanIdle == c_pc = "idle" /\ c_in = << >> /\ c_once = << >> /\ c_twice = << >>

CleanStart == c_pc = "input" /\ c_in \in Texts /\ c_once = << >> /\ c_twice = << >>

CleanOnce ==
    /\ c_pc = "input"
    /\ c_once' = clean_text(c_in)
    /\ c_pc' = "once"
    /\ UNCHANGED <<c_in, c_twice>>

CleanTwice ==
    /\ c_pc = "once"
    /\ c_twice' = clean_text(c_once)
    /\ c_pc' = "twice"
    /\ UNCHANGED <<c_in, c_once>>


(***************************************************************************)
(* Path normalisation and the archive lookup                               *)
(***************************************************************************)
\* faulty variant of normalize_path: leading slashes are kept
NormalizeNoStrip(path) == Replace(path, BSLASH, "/")

normalize_path(path) == LStrip(Replace(path, BSLASH, "/"), "/")

\* file_map = {normalize_path(name).lower(): name for name in namelist()}
RECURSIVE FileMapLoop(_, _)
FileMapLoop(fm, names) ==
    IF names = << >> THEN fm
    ELSE LET name == Head(names)
             key == Lower(normalize_path(name))
         IN FileMapLoop([k \in DOMAIN fm \cup {key} |-> IF k = key THEN name ELSE fm[k]],
                        Tail(names))

FileMap(names) == FileMapLoop(EmptyDict, names)

\* file_map.get(normalize_path(item_path).lower())
Lookup(fm, item_path) ==
    LET norm_path == normalize_path(item_path)
    IN IF Lower(norm_path) \in DOMAIN fm THEN Some(fm[Lower(norm_path)]) ELSE None

\* "if not actual_path": None and the empty string are both false
NotFound(actual_path) == actual_path = None \/ actual_path[1] = << >>

HTM == <<".", "h", "t", "m">>
HTML == <<".", "h", "t", "m", "l">>
XHTML == <<".", "x", "h", "t", "m", "l">>
TXT == <<".", "t", "x", "t">>

IsContentDocument(actual_path) ==
    \E ext \in {HTML, XHTML, HTM} : EndsWith(Lower(actual_path), ext)

\* ---- the lookup on its own: two archive entries, one reading-order path ----
MaxPathLen == 2
PathAlphabet == {"a", "A", "/", BSLASH}
ResolvePaths == {<< >>} \cup {stem \o HTM : stem \in SeqsUpTo(PathAlphabet, MaxPathLen)}

ResolveIdle ==
    /\ r_pc = "idle"
    /\ r_names = << >>
    /\ r_item = << >>
    /\ r_actual = None
    /\ r_read = None

ResolveStart ==
    /\ r_pc = "lookup"
    /\ r_names \in [1..2 -> ResolvePaths]
    /\ r_item \in ResolvePaths
    /\ r_actual = None
    /\ r_read = None

ResolveLookup ==
    /\ r_pc = "lookup"
    /\ r_actual' = Lookup(FileMap(r_names), r_item)
    /\ r_pc' = IF NotFound(r_actual') THEN "not_found"
               ELSE IF ~IsContentDocument(r_actual'[1]) THEN "not_content"
               ELSE "read"
    /\ UNCHANGED <<r_names, r_item, r_read>>

\* zip_ref.read(actual_path)
ResolveRead ==
    /\ r_pc = "read"
    /\ r_read' = Some(r_actual[1])
    /\ r_pc' = "done"
    /\ UNCHANGED <<r_names, r_item, r_actual>>


(***************************************************************************)
(* convert_epub_to_txt                                                     *)
(***************************************************************************)
\* html_to_text of an entry; e.text is what soup.get_text() yields for it
html_to_text(e) == clean_text(e.text)

\* faulty variant of FileSize: counts characters, not bytes
FileSizeInChars(text_content) == Len(text_content)

\* len(text_content.encode('utf-8'))
FileSize(text_content) == Utf8Len(text_content)

\* os.path.splitext(os.path.basename(actual_path))[0] + '.txt'
TxtFilename(actual_path) == SplitextRoot(Basename(actual_path)) \o TXT

\* faulty variant of NoContent: the emptiness test is missing
NoContentNever(items) == FALSE

\* "if not spine_items"
NoContent(items) == items = << >>

\* faulty variant of ExceptPc: the exception leaves the function
ExceptPcPropagate == "raised"

\* where control goes after "except Exception": on to the next item
ExceptPc == "loop"

\* f"{os.path.splitext(os.path.basename(epub_path))[0]}_merged.txt"
MergedName(epub_path) ==
    SplitextRoot(Basename(epub_path)) \o <<"_", "m", "e", "r", "g", "e", "d">> \o TXT

\* faulty variant of MergedSection: the separator also precedes the first section
MergedSectionAlwaysSeparated(index, filename, content) ==
    <<NL, NL>> \o <<"-", "-", "-">> \o SplitextRoot(filename)
        \o <<"-", "-", "-", NL, NL>> \o content

\* what the merge loop writes for the entry at 0-based position index
MergedSection(index, filename, content) ==
    (IF index > 0 THEN <<NL, NL>> ELSE << >>)
        \o <<"-", "-", "-">> \o SplitextRoot(filename) \o <<"-", "-", "-", NL, NL>>
        \o content

RECURSIVE MergedContent(_, _)
MergedContent(files, index) ==
    IF index >= Len(files) THEN << >>
    ELSE MergedSection(index, files[index + 1][1], files[index + 1][3])
             \o MergedContent(files, index + 1)

FsPut(f, name, content) ==
    [n \in DOMAIN f \cup {name} |-> IF n = name THEN content ELSE f[n]]

\* ---- the archive of the model ----
EpubPath == <<"e", ".", "e", "p", "u", "b">>
Rootfile == <<"O", "/", "c", ".", "o", "p", "f">>

BookEntries ==
    << [name |-> <<"o", "/", "a">> \o HTM, text |-> <<EACUTE, NL, NL, NL, "W">>],
       [name |-> <<"P", "/", "a">> \o HTM, text |-> <<"-", "-", "-", "x", "-", "-", "-">>],
       [name |-> <<"O", "/", "i", ".", "p", "n", "g">>, text |-> <<"?">>],
       [name |-> <<"O", "/", "e", "_", "m", "e", "r", "g", "e", "d">> \o HTM,
        text |-> <<"m">>] >>

\* the manifest: a differs from its entry in case, c is rooted and shares its
\* base name with a, g is no content document, m has no entry, e is named
\* like the merged file
BookItems ==
    << [id |-> "a", href |-> <<"A", ".", "H", "T", "M">>],
       [id |-> "c", href |-> <<"/", "P", "/", "a">> \o HTM],
       [id |-> "g", href |-> <<"i", ".", "p", "n", "g">>],
       [id |-> "m", href |-> <<"n">> \o HTM],
       [id |-> "e", href |-> <<"e", "_", "m", "e", "r", "g", "e", "d">> \o HTM] >>

\* idrefs a spine may hold: the manifest ids and one unknown id
BookIdRefs == {"a", "c", "g", "m", "e", "q"}
MaxSpine == 3

Books ==
    [container : {"ok", "missing", "bad"},
     opf_ok : BOOLEAN,
     rootfile : {Rootfile},
     items : {BookItems},
     itemrefs : SeqsUpTo(BookIdRefs, MaxSpine),
     entries : {BookEntries}]

EntryNames(b) == [i \in 1..Len(b.entries) |-> b.entries[i].name]

\* the archive entry of that name (zip_ref.read takes the last of that name)
EntryOf(b, name) ==
    b.entries[CHOOSE i \in 1..Len(b.entries) :
                /\ b.entries[i].name = name
                /\ \A j \in 1..Len(b.entries) : b.entries[j].name = name => j <= i]

NoCur == [actual_path |-> << >>, text_content |-> << >>, txt_filename |-> << >>]
NoStats == [filesProcessed |-> -1, totalBytes |-> -1]
NoHist ==
    [attempted |-> << >>,       \* indices of the items the loop has taken up
     failed |-> {},             \* indices of the items whose processing raised
     written |-> << >>,         \* [item, text] of the completed per-document writes
     sources |-> << >>,         \* actual_path of each entry of processed_files
     opened |-> << >>,          \* file names opened for writing, in order
     merged_written |-> FALSE]

ConvIdle ==
    /\ pc = "idle"
    /\ book = [container |-> "ok", opf_ok |-> TRUE, rootfile |-> << >>, items |-> << >>,
               itemrefs |-> << >>, entries |-> << >>]
    /\ merge = FALSE
    /\ dir_created = FALSE
    /\ fs = EmptyDict
    /\ spine_items = << >>
    /\ file_map = EmptyDict
    /\ idx = 0
    /\ cur = NoCur
    /\ processed_files = << >>
    /\ total_size = 0
    /\ outcome = "none"
    /\ stats = NoStats
    /\ hist = NoHist

ConvStart ==
    /\ pc = "start"
    /\ book \in Books
    /\ merge \in BOOLEAN
    /\ dir_created = FALSE
    /\ fs = EmptyDict
    /\ spine_items = << >>
    /\ file_map = EmptyDict
    /\ idx = 0
    /\ cur = NoCur
    /\ processed_files = << >>
    /\ total_size = 0
    /\ outcome = "none"
    /\ stats = NoStats
    /\ hist = NoHist

\* os.makedirs(output_dir, exist_ok=True)
MakeDirs ==
    /\ pc = "start"
    /\ dir_created' = TRUE
    /\ pc' = "spine"
    /\ UNCHANGED <<book, merge, fs, spine_items, file_map, idx, cur, processed_files,
                   total_size, outcome, stats, hist>>

\* spine_items = get_spine_order(epub_path), empty: report and return
SpineEmpty ==
    /\ pc = "spine"
    /\ NoContent(get_spine_order(book))
    /\ spine_items' = get_spine_order(book)
    /\ outcome' = "NoContent"
    /\ pc' = "done"
    /\ UNCHANGED <<book, merge, dir_created, fs, file_map, idx, cur, processed_files,
                   total_size, stats, hist>>

\* spine_items = get_spine_order(epub_path), not empty: open the archive, build file_map
SpineOk ==
    /\ pc = "spine"
    /\ ~NoContent(get_spine_order(book))
    /\ spine_items' = get_spine_order(book)
    /\ processed_files' = << >>
    /\ total_size' = 0
    /\ file_map' = FileMap(EntryNames(book))
    /\ idx' = 1
    /\ pc' = "loop"
    /\ UNCHANGED <<book, merge, dir_created, fs, cur, outcome, stats, hist>>

\* top of the loop body: resolve the item; skip it when it is not in the archive
\* or is not a content document
LoopLookup ==
    /\ pc = "loop"
    /\ idx <= Len(spine_items)
    /\ LET actual_path == Lookup(file_map, spine_items[idx])
       IN IF NotFound(actual_path) \/ ~IsContentDocument(actual_path[1])
          THEN /\ idx' = idx + 1
               /\ pc' = "loop"
               /\ cur' = NoCur
          ELSE /\ idx' = idx
               /\ pc' = "read"
               /\ cur' = [NoCur EXCEPT !.actual_path = actual_path[1]]
    /\ hist' = [hist EXCEPT !.attempted = Append(@, idx)]
    /\ UNCHANGED <<book, merge, dir_created, fs, spine_items, file_map, processed_files,
                   total_size, outcome, stats>>

\* zip_ref.read, safe_decode, html_to_text and the file name; any of them may raise
ReadExtract ==
    /\ pc = "read"
    /\ \E ok \in BOOLEAN :
         IF ok
         THEN /\ cur' = [cur EXCEPT
                           !.text_content = html_to_text(EntryOf(book, cur.actual_path)),
                           !.txt_filename = TxtFilename(cur.actual_path)]
              /\ pc' = "write"
              /\ UNCHANGED <<idx, hist>>
         ELSE /\ cur' = NoCur
              /\ pc' = ExceptPc
              /\ idx' = idx + 1
              /\ hist' = [hist EXCEPT !.failed = @ \cup {idx}]
    /\ UNCHANGED <<book, merge, dir_created, fs, spine_items, file_map, processed_files,
                   total_size, outcome, stats>>

\* open(txt_path, 'w') and write: open may raise (nothing is created), write may
\* raise after open has created or truncated the file, leaving any part of
\* the text in it
WriteTxt ==
    /\ pc = "write"
    /\ \E r \in {"ok", "open_error", "write_error"} :
         /\ \E n \in 0..(IF r = "write_error" THEN Len(cur.text_content) ELSE 0) :
              fs' = CASE r = "ok" -> FsPut(fs, cur.txt_filename, cur.text_content)
                      [] r = "write_error" ->
                             FsPut(fs, cur.txt_filename, SubSeq(cur.text_content, 1, n))
                      [] OTHER -> fs
         /\ IF r = "ok"
            THEN /\ pc' = "record"
                 /\ UNCHANGED <<idx, cur>>
                 /\ hist' = [hist EXCEPT
                               !.opened = Append(@, cur.txt_filename),
                               !.written = Append(@, [item |-> idx,
                                                      text |-> cur.text_content])]
            ELSE /\ pc' = ExceptPc
                 /\ idx' = idx + 1
                 /\ cur' = NoCur
                 /\ hist' = [hist EXCEPT
                               !.failed = @ \cup {idx},
                               !.opened = IF r = "write_error"
                                          THEN Append(@, cur.txt_filename) ELSE @]
    /\ UNCHANGED <<book, merge, dir_created, spine_items, file_map, processed_files,
                   total_size, outcome, stats>>

\* file_size, total_size += file_size, processed_files.append(...)
Record ==
    /\ pc = "record"
    /\ LET file_size == FileSize(cur.text_content)
       IN /\ total_size' = total_size + file_size
          /\ processed_files' =
                 Append(processed_files, <<cur.txt_filename, file_size, cur.text_content>>)
    /\ hist' = [hist EXCEPT !.sources = Append(@, cur.actual_path)]
    /\ idx' = idx + 1
    /\ cur' = NoCur
    /\ pc' = "loop"
    /\ UNCHANGED <<book, merge, dir_created, fs, spine_items, file_map, outcome, stats>>

\* the reading order is exhausted
LoopEnd ==
    /\ pc = "loop"
    /\ idx > Len(spine_items)
    /\ pc' = "merge"
    /\ UNCHANGED <<book, merge, dir_created, fs, spine_items, file_map, idx, cur,
                   processed_files, total_size, outcome, stats, hist>>

\* if merge and processed_files: write the merged file
MergeWrite ==
    /\ pc = "merge"
    /\ merge /\ processed_files # << >>
    /\ fs' = FsPut(fs, MergedName(EpubPath), MergedContent(processed_files, 0))
    /\ hist' = [hist EXCEPT !.opened = Append(@, MergedName(EpubPath)),
                            !.merged_written = TRUE]
    /\ pc' = "stats"
    /\ UNCHANGED <<book, merge, dir_created, spine_items, file_map, idx, cur,
                   processed_files, total_size, outcome, stats>>

MergeSkip ==
    /\ pc = "merge"
    /\ ~(merge /\ processed_files # << >>)
    /\ pc' = "stats"
    /\ UNCHANGED <<book, merge, dir_created, fs, spine_items, file_map, idx, cur,
                   processed_files, total_size, outcome, stats, hist>>

\* the statistics reported at the end
Statistics ==
    /\ pc = "stats"
    /\ stats' = [filesProcessed |-> Len(processed_files), totalBytes |-> total_size]
    /\ outcome' = "completed"
    /\ pc' = "done"
    /\ UNCHANGED <<book, merge, dir_created, fs, spine_items, file_map, idx, cur,
                   processed_files, total_size, hist>>

(***************************************************************************)
(* Specifications                                                          *)
(***************************************************************************)
Init == ConvStart /\ SpineIdle /\ CleanIdle /\ ResolveIdle

Next ==
    \/ (MakeDirs /\ UNCHANGED <<spineVars, cleanVars, resolveVars>>)
    \/ (SpineEmpty /\ UNCHANGED <<spineVars, cleanVars, resolveVars>>)
    \/ (SpineOk /\ UNCHANGED <<spineVars, cleanVars, resolveVars>>)
    \/ (LoopLookup /\ UNCHANGED <<spineVars, cleanVars, resolveVars>>)
    \/ (ReadExtract /\ UNCHANGED <<spineVars, cleanVars, resolveVars>>)
    \/ (WriteTxt /\ UNCHANGED <<spineVars, cleanVars, resolveVars>>)
    \/ (Record /\ UNCHANGED <<spineVars, cleanVars, resolveVars>>)
    \/ (LoopEnd /\ UNCHANGED <<spineVars, cleanVars, resolveVars>>)
    \/ (MergeWrite /\ UNCHANGED <<spineVars, cleanVars, resolveVars>>)
    \/ (MergeSkip /\ UNCHANGED <<spineVars, cleanVars, resolveVars>>)
    \/ (Statistics /\ UNCHANGED <<spineVars, cleanVars, resolveVars>>)

Spec == Init /\ [][Next]_vars

InitSpine == SpineStart /\ ConvIdle /\ CleanIdle /\ ResolveIdle

NextSpine ==
    \/ (ManifestStep /\ UNCHANGED <<convVars, cleanVars, resolveVars>>)
    \/ (ManifestDone /\ UNCHANGED <<convVars, cleanVars, resolveVars>>)
    \/ (SpineStep /\ UNCHANGED <<convVars, cleanVars, resolveVars>>)
    \/ (SpineReturn /\ UNCHANGED <<convVars, cleanVars, resolveVars>>)

SpecSpine == InitSpine /\ [][NextSpine]_vars

InitClean == CleanStart /\ ConvIdle /\ SpineIdle /\ ResolveIdle

NextClean ==
    \/ (CleanOnce /\ UNCHANGED <<convVars, spineVars, resolveVars>>)
    \/ (CleanTwice /\ UNCHANGED <<convVars, spineVars, resolveVars>>)

SpecClean == InitClean /\ [][NextClean]_vars

InitResolve == ResolveStart /\ ConvIdle /\ SpineIdle /\ CleanIdle

NextResolve ==
    \/ (ResolveLookup /\ UNCHANGED <<convVars, spineVars, cleanVars>>)
    \/ (ResolveRead /\ UNCHANGED <<convVars, spineVars, cleanVars>>)

SpecResolve == InitResolve /\ [][NextResolve]_vars


(***************************************************************************)
(* Properties                                                              *)
(***************************************************************************)
Range(f) == {f[i] : i \in DOMAIN f}

RECURSIVE JoinWith(_, _)
JoinWith(parts, sep) ==
    IF parts = << >> THEN << >>
    ELSE IF Len(parts) = 1 THEN parts[1]
    ELSE parts[1] \o sep \o JoinWith(Tail(parts), sep)

RECURSIVE SumSizes(_)
SumSizes(files) == IF files = << >> THEN 0 ELSE Head(files)[2] + SumSizes(Tail(files))

RECURSIVE SumTextBytes(_)
SumTextBytes(ws) ==
    IF ws = << >> THEN 0 ELSE Utf8Len(Head(ws).text) + SumTextBytes(Tail(ws))

\* ---- C1 ----
ManifestIds(pkg) == {pkg.items[i].id : i \in 1..Len(pkg.items)}

\* the href the manifest gives an id: that of the last item declaring the id
ResolvedHref(pkg, id) ==
    LET last == CHOOSE i \in 1..Len(pkg.items) :
                    /\ pkg.items[i].id = id
                    /\ \A j \in 1..Len(pkg.items) : pkg.items[j].id = id => j <= i
    IN ItemHref(OpfDir(pkg.rootfile), pkg.items[last].href)

\* C1: the reading order get_spine_order returns is the sequence of spine
\* idrefs with every idref that is not a manifest id removed and every other
\* idref replaced by its resolved manifest href, order and repeats kept.
C1_ReadingOrder ==
    s_pc = "return" =>
        LET kept == SelectSeq(s_pkg.itemrefs, LAMBDA r : r \in ManifestIds(s_pkg))
        IN s_spine = [i \in 1..Len(kept) |-> ResolvedHref(s_pkg, kept[i])]

\* a returned order of a spine with an unresolved idref between two resolved
\* ones, the second a repeat of the first
C1_Witness ==
    /\ s_pc = "return"
    /\ Len(s_pkg.itemrefs) = 3
    /\ s_pkg.itemrefs[1] = s_pkg.itemrefs[3]
    /\ s_pkg.itemrefs[1] \in ManifestIds(s_pkg)
    /\ s_pkg.itemrefs[2] \notin ManifestIds(s_pkg)
    /\ Len(s_spine) = 2

\* ---- C2 ----
\* C2 as stated: with an empty reading order the run ends as NoContent and
\* neither an output file nor the output directory is created at any point.
C2_NoWritesNoDirectory ==
    get_spine_order(book) = << >> =>
        /\ ~dir_created
        /\ DOMAIN fs = {}
        /\ hist.opened = << >>
        /\ (pc = "done" => outcome = "NoContent")

\* C2 as amended: with an empty reading order the run ends as NoContent right
\* after the resolver returns, and no output file is created or opened at any
\* point; the output directory exists from the first step on.
C2_NoContentNoFiles ==
    get_spine_order(book) = << >> =>
        /\ pc \in {"start", "spine", "done"}
        /\ (pc = "done" => outcome = "NoContent")
        /\ (pc # "start" => dir_created)
        /\ DOMAIN fs = {}
        /\ hist.opened = << >>
        /\ stats = NoStats

\* a NoContent end for a parsable package none of whose spine entries resolves
C2_Witness ==
    /\ pc = "done"
    /\ outcome = "NoContent"
    /\ book.container = "ok"
    /\ book.opf_ok
    /\ Len(book.itemrefs) = MaxSpine
    /\ dir_created

\* ---- C3 ----
\* the section of the i-th successful document: header of its base name, a
\* blank line, its text
C3_Section(i) ==
    <<"-", "-", "-">> \o SplitextRoot(Basename(hist.sources[i])) \o <<"-", "-", "-">>
        \o <<NL, NL>> \o hist.written[i].text

\* C3: after the merge step, if merge was requested and a document succeeded,
\* the merged file holds the sections of the successful documents in reading
\* order, joined by exactly "\n\n", nothing before or after; otherwise no
\* merged file has been written.
C3_MergedContent ==
    /\ (~merge => ~hist.merged_written)
    /\ pc \in {"stats", "done"} =>
         IF merge /\ hist.written # << >>
         THEN /\ hist.merged_written
              /\ MergedName(EpubPath) \in DOMAIN fs
              /\ fs[MergedName(EpubPath)] =
                     JoinWith([i \in 1..Len(hist.written) |-> C3_Section(i)], <<NL, NL>>)
         ELSE ~hist.merged_written

\* a finished merge of three documents
C3_Witness ==
    /\ pc = "done"
    /\ merge
    /\ hist.merged_written
    /\ Len(hist.written) = 3
    /\ Len(fs[MergedName(EpubPath)]) > 30

\* ---- C4 ----
IsHeaderLine(l) ==
    Len(l) >= 6 /\ StartsWith(l, <<"-", "-", "-">>) /\ EndsWith(l, <<"-", "-", "-">>)

\* the merged file split at its header lines: per section the base name of the
\* header and the text between the blank line after it and the blank line
\* before the next header
SplitMerged(content) ==
    LET lines == SplitLines(content)
        heads == {i \in 1..Len(lines) : IsHeaderLine(lines[i])}
        nth(k) == CHOOSE h \in heads : Cardinality({g \in heads : g < h}) = k - 1
        last(k) == IF k = Cardinality(heads) THEN Len(lines) ELSE nth(k + 1) - 2
    IN [k \in 1..Cardinality(heads) |->
           [base |-> SubSeq(lines[nth(k)], 4, Len(lines[nth(k)]) - 3),
            text |-> IF last(k) < nth(k) + 2 THEN << >>
                     ELSE JoinLines(SubSeq(lines, nth(k) + 2, last(k)))]]

\* C4: after a completed run with merge, the merged file split at its header
\* lines gives, in reading order, one section per successful document whose
\* text equals the content of that document's file in the output directory.
C4_SplitReproducesFiles ==
    (pc = "done" /\ hist.merged_written) =>
        LET secs == SplitMerged(fs[MergedName(EpubPath)])
        IN /\ Len(secs) = Len(processed_files)
           /\ \A i \in 1..Len(secs) :
                /\ secs[i].base \o TXT = processed_files[i][1]
                /\ secs[i].text = fs[processed_files[i][1]]

\* ---- C5 ----
\* C5: clean_text is idempotent: cleaning a cleaned text changes nothing.
C5_Idempotent == c_pc = "twice" => c_twice = c_once

\* ---- C6 ----
\* C6: after a completed run the output directory holds exactly one
\* per-document file for each successful document: as many distinct files as
\* the reported count, each still holding its document's text.
C6_OneFilePerDocument ==
    (pc = "done" /\ outcome = "completed") =>
        LET names == {processed_files[i][1] : i \in 1..Len(processed_files)}
        IN /\ Cardinality(names) = stats.filesProcessed
           /\ \A i \in 1..Len(processed_files) :
                /\ processed_files[i][1] \in DOMAIN fs
                /\ fs[processed_files[i][1]] = processed_files[i][3]

ClaimKey(p) ==
    LET q == [i \in 1..Len(p) |-> IF p[i] = BSLASH THEN "/" ELSE p[i]]
        rest == {i \in 1..Len(q) : q[i] # "/"}
        first == IF rest = {} THEN Len(q) + 1
                 ELSE CHOOSE i \in rest : \A j \in rest : i <= j
    IN Lower(SubSeq(q, first, Len(q)))

C8_Resolved ==
    /\ r_pc # "not_found"
    /\ r_actual # None
    /\ r_actual[1] \in Range(r_names)
    /\ ClaimKey(r_actual[1]) = ClaimKey(r_item)
    /\ (r_pc = "done" => r_read = r_actual)

C9_FailureDoesNotAbort ==
    /\ pc \in {"start", "spine", "loop", "read", "write", "record", "merge", "stats", "done"}
    /\ hist.attempted = [i \in 1..Len(hist.attempted) |-> i]
    /\ pc = "loop" => Len(hist.attempted) = idx - 1
    /\ pc \in {"read", "write", "record"} => Len(hist.attempted) = idx
    /\ \A i \in 1..Len(hist.written) : hist.written[i].item \notin hist.failed
    /\ Len(processed_files) <= Len(hist.written)
    /\ total_size = SumSizes(processed_files)
    /\ (pc \in {"merge", "stats", "done"} /\ spine_items # << >>) =>
         Len(hist.attempted) = Len(spine_items)
    /\ (pc = "done" /\ spine_items # << >>) =>
         /\ outcome = "completed"
         /\ stats.filesProcessed = Len(processed_files)
    /\ pc = "loop" => idx \in 1..(Len(spine_items) + 1)

\* a completed run in which an item failed and a later item was written
C9_Witness ==
    /\ pc = "done"
    /\ outcome = "completed"
    /\ \E i \in hist.failed : \E k \in 1..Len(hist.written) : hist.written[k].item > i
    /\ stats.filesProcessed = 1

\* ---- C10 ----
\* C10: the output of clean_text has no three consecutive newlines.
C10_NoTripleNewline ==
    c_pc # "input" =>
        ~\E i \in 1..(Len(c_once) - 2) : c_once[i] = NL /\ c_once[i + 1] = NL /\ c_once[i + 2] = NL


====
